---- MODULE Spec2Model ----
(***************************************************************************)
(* Model of project.py, the ILI dashboard script.                          *)
(*                                                                         *)
(* The script runs top to bottom once per render pass (Streamlit reruns it *)
(* on every interaction).  A pass loads the table (through the             *)
(* st.cache_data cache), draws the title and the state selector, copies    *)
(* the selected state's rows, draws the time series (optionally a 5-week   *)
(* rolling mean) and then either the exponential fit or a fallback text.   *)
(*                                                                         *)
(* Real numbers are modelled as exact fractions <<num, den>>, den > 0, in  *)
(* lowest terms; the metric values of the input are integers.              *)
(***************************************************************************)
EXTENDS Integers, Sequences, FiniteSets, TLC

(* ---------------------------------------------------------------- bounds *)
MaxRows == 3       \* rows of an enumerated input file
MaxPasses == 2     \* render passes of one run of the model
LongLen == 6       \* rows of the enumerated single-state files

(* ------------------------------------------------------------- constants *)
Window == 5        \* rolling(window=5, ...)
MinPeriods == 1    \* rolling(..., min_periods=1)

(* State keys found in the file, listed in the order sorted() gives them.  *)
StateKeys == <<"ca", "pr">>
KeySet == {StateKeys[i] : i \in 1..Len(StateKeys)}

(* st.selectbox returns None when it has no options.                       *)
None == "None"

(* x.upper() on the keys of the model.                                     *)
Upper(s) == IF s = "ca" THEN "CA" ELSE IF s = "pr" THEN "PR" ELSE s

(* us_state_names.get(k, default): of the model's keys only CA is listed.  *)
UsStateNamesGet(k, default) == IF k = "CA" THEN "California" ELSE default

(* ------------------------------------------------------------- fractions *)
Abs(x) == IF x < 0 THEN -x ELSE x

RECURSIVE GCD(_, _)
GCD(a, b) == IF b = 0 THEN a ELSE GCD(b, a % b)

(* n / d as a fraction in lowest terms with a positive denominator.        *)
Frac(n, d) ==
    LET g == GCD(Abs(n), Abs(d))
        s == IF d < 0 THEN -1 ELSE 1
    IN  <<(s * n) \div g, (s * d) \div g>>

(* The sum of an array of numbers.                                         *)
RECURSIVE SumSeq(_)
SumSeq(s) == IF s = <<>> THEN 0 ELSE Head(s) + SumSeq(Tail(s))

(* -------------------------------------------------------------- the file *)
(* A row of ilidata.csv.  The ili cell is <<>> when empty (NaN after       *)
(* read_csv) and <<v>> when it holds the value v.                          *)
Cells == {<<>>, <<0>>, <<1>>}
EpiWeeks == {1, 2}
CsvRows == [state : KeySet, epiweek : EpiWeeks, ili : Cells]

Row(s, w, v) == [state |-> s, epiweek |-> w, ili |-> <<v>>]
Missing(s, w) == [state |-> s, epiweek |-> w, ili |-> <<>>]

SeqsUpTo(S, n) == UNION {[1..k -> S] : k \in 0..n}

(* Every file of at most MaxRows rows.                                     *)
ShortFiles == SeqsUpTo(CsvRows, MaxRows)

(* Every file of LongLen rows of one state, all values present.            *)
LongFiles ==
    {[i \in 1..LongLen |-> Row("ca", 1, f[i])] : f \in [1..LongLen -> {1, 4}]}

(* Files with larger, negative and reordered values.                       *)
SampleFiles ==
    { <<Row("ca", 1, 1), Row("ca", 1, 3), Row("pr", 1, 2), Row("ca", 1, 5),
        Missing("ca", 1), Row("ca", 1, 2), Row("ca", 1, 4), Row("ca", 1, 6)>>,
      <<Row("ca", 1, 1), Row("ca", 2, 2), Row("ca", 1, 3)>>,
      <<Row("ca", 1, 3), Row("ca", 2, 1), Row("ca", 1, 2)>>,
      <<Row("ca", 1, 2), Row("pr", 1, 0), Row("ca", 2, 3), Row("ca", 1, 1)>>,
      <<Row("ca", 1, -1), Row("ca", 1, 1), Row("pr", 1, -2), Row("pr", 1, 1)>>,
      <<Row("ca", 1, -1), Row("ca", 1, 2)>> }

AllColumns == {"state", "epiweek", "ili"}

(* What pd.read_csv("ilidata.csv") finds: an unreadable file, a file       *)
(* without one of the columns the script uses, or a table of rows.         *)
Sources ==
    {[readable |-> FALSE, columns |-> AllColumns, rows |-> <<>>]}
    \cup {[readable |-> TRUE, columns |-> AllColumns \ {c}, rows |-> <<>>] :
             c \in {"state", "ili"}}
    \cup {[readable |-> TRUE, columns |-> AllColumns, rows |-> f] :
             f \in ShortFiles \cup LongFiles \cup SampleFiles}

(* ------------------------------------------------------------- load_data *)
(* Variant: a filter that also drops the rows whose value is 0, as         *)
(* df[df["ili"] > 0] would.                                                *)
dropnaOrZero(rows) == SelectSeq(rows, LAMBDA r : r.ili # <<>> /\ r.ili # <<0>>)

(* df.dropna(subset=["ili"]): keeps the rows whose ili cell is not NaN.    *)
dropna(rows) == SelectSeq(rows, LAMBDA r : r.ili # <<>>)

(* df.groupby("state").cumcount(): one pass over the rows with a counter   *)
(* per group; a row gets its group's counter, which is then advanced.      *)
RECURSIVE cumcountFrom(_, _, _, _)
cumcountFrom(rows, i, seen, acc) ==
    IF i > Len(rows) THEN acc
    ELSE LET g == rows[i].state
         IN  cumcountFrom(rows, i + 1, [seen EXCEPT ![g] = @ + 1],
                          Append(acc, seen[g]))

(* Variant: one counter for the whole table, not one per group.            *)
cumcountGlobal(rows) == [i \in 1..Len(rows) |-> i - 1]

cumcount(rows) == cumcountFrom(rows, 1, [g \in KeySet |-> 0], <<>>)

(* The table load_data returns: the kept rows with the "weeks" column.     *)
load_data(rows) ==
    LET kept == dropna(rows)
        weeks == cumcount(kept)
    IN  [i \in 1..Len(kept) |->
            [state |-> kept[i].state, epiweek |-> kept[i].epiweek,
             ili |-> kept[i].ili[1], weeks |-> weeks[i]]]

(* The exception load_data raises, "none" when it returns.                 *)
LoadError(src) ==
    IF ~src.readable THEN "FileNotFoundError"
    ELSE IF ~({"ili", "state"} \subseteq src.columns) THEN "KeyError"
    ELSE "none"

(* -------------------------------------------------------------- selector *)
(* sorted(df_loaded["state"].unique())                                     *)
Options(table) ==
    SelectSeq(StateKeys, LAMBDA k : \E i \in 1..Len(table) : table[i].state = k)

(* df_loaded[df_loaded["state"] == state].copy()                           *)
SelectRows(table, key) == SelectSeq(table, LAMBDA r : r.state = key)

(* --------------------------------------------------------------- chart 1 *)
(* state_df.set_index("weeks")["ili"]                                      *)
SetIndex(rows) ==
    [i \in 1..Len(rows) |-> [index |-> rows[i].weeks, value |-> Frac(rows[i].ili, 1)]]

(* Series.rolling(window, min_periods).mean(): a sliding sum; each step    *)
(* adds the entering value and removes the one leaving the window.  With   *)
(* fewer than min_periods observations the result is NaN, written <<>>.    *)
RECURSIVE RollFrom(_, _, _, _, _)
RollFrom(vals, i, sum_x, nobs, acc) ==
    IF i > Len(vals) THEN acc
    ELSE LET leaving == i > Window
             s == sum_x + vals[i] - (IF leaving THEN vals[i - Window] ELSE 0)
             n == IF leaving THEN nobs ELSE nobs + 1
         IN  RollFrom(vals, i + 1, s, n,
                      Append(acc, IF n >= MinPeriods THEN Frac(s, n) ELSE <<>>))

(* Variant: a window that never drops a value (an expanding mean).         *)
ExpandingMean(vals) ==
    [i \in 1..Len(vals) |-> Frac(SumSeq(SubSeq(vals, 1, i)), i)]

RollingMean(vals) == RollFrom(vals, 1, 0, 0, <<>>)

(* Variant: the rolling mean applied whatever the checkbox says.           *)
YSeriesAlwaysSmooth(ysd, avg) ==
    IF ysd # <<>>
    THEN LET rolled == RollingMean([i \in 1..Len(ysd) |-> ysd[i].value[1]])
         IN  [i \in 1..Len(rolled) |->
                 [index |-> ysd[i].index, value |-> rolled[i]]]
    ELSE ysd

(* Lines 77-85: the series handed to st.line_chart.                        *)
YSeries(ysd, avg) ==
    IF avg
    THEN IF ysd # <<>>
         THEN LET rolled == RollingMean([i \in 1..Len(ysd) |-> ysd[i].value[1]])
              IN  [i \in 1..Len(rolled) |->
                      [index |-> ysd[i].index, value |-> rolled[i]]]
         ELSE ysd
    ELSE ysd

(* --------------------------------------------------------------- chart 2 *)
(* state_df["ili"].values                                                  *)
IliValues(rows) == [i \in 1..Len(rows) |-> rows[i].ili]

(* ili_value.mean(), used only on a non-empty array.                       *)
Mean(vals) == Frac(SumSeq(vals), Len(vals))

(* ili_value.size > 0 and ili_value.mean() > 0                             *)
FitGuard(vals) == Len(vals) > 0 /\ Mean(vals)[1] > 0

(* Variant: the inverse of the sum instead of the mean.                    *)
LambdaHatOfSum(vals) == Frac(1, SumSeq(vals))

(* 1.0 / ili_value.mean()                                                  *)
LambdaHat(vals) == LET m == Mean(vals) IN Frac(m[2], m[1])

(* ----------------------------------------------------------------- state *)
VARIABLES
    source,         \* what ilidata.csv holds
    cache,          \* st.cache_data's store for load_data: <<>> or <<table>>
    pass,           \* number of the render pass
    pc,             \* position of the script in the pass
    reads,          \* pd.read_csv calls made in this pass
    error,          \* the exception that ended the pass, "none" otherwise
    output,         \* the elements the pass has handed to Streamlit
    df_loaded,
    state,
    state_df,
    full_state,
    average,
    y_series_data,
    y_series,
    ili_value,
    lambda_hat,
    outcome         \* "fit", "nofit" or "undecided"

vars == <<source, cache, pass, pc, reads, error, output, df_loaded, state,
          state_df, full_state, average, y_series_data, y_series, ili_value,
          lambda_hat, outcome>>

passVars == <<df_loaded, state, state_df, full_state, average, y_series_data,
              y_series, ili_value, lambda_hat, outcome>>

FreshPass ==
    /\ pc' = "load_data"
    /\ reads' = 0
    /\ error' = "none"
    /\ output' = <<>>
    /\ df_loaded' = <<>>
    /\ state' = None
    /\ state_df' = <<>>
    /\ full_state' = ""
    /\ average' = TRUE
    /\ y_series_data' = <<>>
    /\ y_series' = <<>>
    /\ ili_value' = <<>>
    /\ lambda_hat' = <<0, 1>>
    /\ outcome' = "undecided"

Init ==
    /\ source \in Sources
    /\ cache = <<>>
    /\ pass = 1
    /\ pc = "load_data"
    /\ reads = 0
    /\ error = "none"
    /\ output = <<>>
    /\ df_loaded = <<>>
    /\ state = None
    /\ state_df = <<>>
    /\ full_state = ""
    /\ average = TRUE
    /\ y_series_data = <<>>
    /\ y_series = <<>>
    /\ ili_value = <<>>
    /\ lambda_hat = <<0, 1>>
    /\ outcome = "undecided"

(* --------------------------------------------------------------- actions *)
(* Line 30 with the table in the cache: load_data's body is not run.       *)
LoadCached ==
    /\ pc = "load_data"
    /\ cache # <<>>
    /\ df_loaded' = cache[1]
    /\ pc' = "title"
    /\ UNCHANGED <<source, cache, pass, reads, error, output, state, state_df,
                   full_state, average, y_series_data, y_series, ili_value,
                   lambda_hat, outcome>>

(* Line 30 with an empty cache, load_data returning: the result is stored. *)
LoadFresh ==
    /\ pc = "load_data"
    /\ cache = <<>>
    /\ LoadError(source) = "none"
    /\ reads' = reads + 1
    /\ df_loaded' = load_data(source.rows)
    /\ cache' = <<load_data(source.rows)>>
    /\ pc' = "title"
    /\ UNCHANGED <<source, pass, error, output, state, state_df, full_state,
                   average, y_series_data, y_series, ili_value, lambda_hat,
                   outcome>>

(* Variant: load_data swallowing the exception and returning no rows.      *)
LoadSwallows ==
    /\ pc = "load_data"
    /\ cache = <<>>
    /\ LoadError(source) # "none"
    /\ reads' = reads + 1
    /\ df_loaded' = <<>>
    /\ pc' = "title"
    /\ UNCHANGED <<source, cache, pass, error, output, state, state_df,
                   full_state, average, y_series_data, y_series, ili_value,
                   lambda_hat, outcome>>

(* Line 30 with load_data raising: the exception ends the script.          *)
LoadFails ==
    /\ pc = "load_data"
    /\ cache = <<>>
    /\ LoadError(source) # "none"
    /\ reads' = reads + 1
    /\ error' = LoadError(source)
    /\ pc' = "aborted"
    /\ UNCHANGED <<source, cache, pass, output>>
    /\ UNCHANGED passVars

(* Line 48.                                                                *)
Title ==
    /\ pc = "title"
    /\ output' = Append(output, "title")
    /\ pc' = "selectbox"
    /\ UNCHANGED <<source, cache, pass, reads, error>>
    /\ UNCHANGED passVars

(* Lines 51-55: the first pass shows the first option; in a later pass the *)
(* user may have picked any option.  Without options the value is None.    *)
Selectbox ==
    /\ pc = "selectbox"
    /\ LET options == Options(df_loaded)
       IN  IF options = <<>> THEN state' = None
           ELSE IF pass = 1 THEN state' = options[1]
           ELSE \E i \in 1..Len(options) : state' = options[i]
    /\ output' = Append(output, "selectbox")
    /\ pc' = "state_df"
    /\ UNCHANGED <<source, cache, pass, reads, error, df_loaded, state_df,
                   full_state, average, y_series_data, y_series, ili_value,
                   lambda_hat, outcome>>

(* Line 58.                                                                *)
StateDf ==
    /\ pc = "state_df"
    /\ state_df' = SelectRows(df_loaded, state)
    /\ pc' = "full_state"
    /\ UNCHANGED <<source, cache, pass, reads, error, output, df_loaded, state,
                   full_state, average, y_series_data, y_series, ili_value,
                   lambda_hat, outcome>>

(* Line 61: state.upper() raises AttributeError when state is None.        *)
FullState ==
    /\ pc = "full_state"
    /\ IF state = None
       THEN /\ error' = "AttributeError"
            /\ pc' = "crashed"
            /\ UNCHANGED full_state
       ELSE /\ full_state' = UsStateNamesGet(Upper(state), Upper(state))
            /\ pc' = "checkbox"
            /\ UNCHANGED error
    /\ UNCHANGED <<source, cache, pass, reads, output, df_loaded, state,
                   state_df, average, y_series_data, y_series, ili_value,
                   lambda_hat, outcome>>

(* Lines 66-70: the box is ticked in the first pass (value=True).          *)
Checkbox ==
    /\ pc = "checkbox"
    /\ output' = output \o <<"subheader", "checkbox">>
    /\ IF pass = 1 THEN average' = TRUE ELSE average' \in BOOLEAN
    /\ pc' = "y_series"
    /\ UNCHANGED <<source, cache, pass, reads, error, df_loaded, state,
                   state_df, full_state, y_series_data, y_series, ili_value,
                   lambda_hat, outcome>>

(* Variant: the smoothed values written back into the table's ili column  *)
(* (rounded down), as an assignment through an uncopied selection would.   *)
ComputeYSeriesInPlace ==
    /\ pc = "y_series"
    /\ y_series_data' = SetIndex(state_df)
    /\ y_series' = YSeries(SetIndex(state_df), average)
    /\ df_loaded' =
          [i \in 1..Len(df_loaded) |->
              IF df_loaded[i].state = state
              THEN LET v == YSeries(SetIndex(state_df), average)[df_loaded[i].weeks + 1].value
                   IN  [df_loaded[i] EXCEPT !.ili = v[1] \div v[2]]
              ELSE df_loaded[i]]
    /\ pc' = "line_chart"
    /\ UNCHANGED <<source, cache, pass, reads, error, output, state,
                   state_df, full_state, average, ili_value, lambda_hat,
                   outcome>>

(* Lines 74-85.                                                            *)
ComputeYSeries ==
    /\ pc = "y_series"
    /\ y_series_data' = SetIndex(state_df)
    /\ y_series' = YSeries(SetIndex(state_df), average)
    /\ pc' = "line_chart"
    /\ UNCHANGED <<source, cache, pass, reads, error, output, df_loaded, state,
                   state_df, full_state, average, ili_value, lambda_hat,
                   outcome>>

(* Lines 87-91.                                                            *)
LineChart ==
    /\ pc = "line_chart"
    /\ output' = Append(output, "line_chart")
    /\ pc' = "ili_value"
    /\ UNCHANGED <<source, cache, pass, reads, error>>
    /\ UNCHANGED passVars

(* Lines 96-99.                                                            *)
IliValue ==
    /\ pc = "ili_value"
    /\ output' = Append(output, "subheader")
    /\ ili_value' = IliValues(state_df)
    /\ pc' = "fit_guard"
    /\ UNCHANGED <<source, cache, pass, reads, error, df_loaded, state,
                   state_df, full_state, average, y_series_data, y_series,
                   lambda_hat, outcome>>

(* Lines 103-186: the histogram, the fitted curve and the text.            *)
Fit ==
    /\ pc = "fit_guard"
    /\ FitGuard(ili_value)
    /\ lambda_hat' = LambdaHat(ili_value)
    /\ output' = output \o <<"pyplot", "header", "markdown">>
    /\ outcome' = "fit"
    /\ pc' = "done"
    /\ UNCHANGED <<source, cache, pass, reads, error, df_loaded, state,
                   state_df, full_state, average, y_series_data, y_series,
                   ili_value>>

(* Lines 187-189: the fallback text.                                       *)
NoFit ==
    /\ pc = "fit_guard"
    /\ ~FitGuard(ili_value)
    /\ output' = Append(output, "write")
    /\ outcome' = "nofit"
    /\ pc' = "done"
    /\ UNCHANGED <<source, cache, pass, reads, error, df_loaded, state,
                   state_df, full_state, average, y_series_data, y_series,
                   ili_value, lambda_hat>>

(* Streamlit runs the script again (an interaction, a reload).             *)
Rerun ==
    /\ pc \in {"done", "crashed", "aborted"}
    /\ pass < MaxPasses
    /\ pass' = pass + 1
    /\ FreshPass
    /\ UNCHANGED <<source, cache>>

Next ==
    \/ LoadCached
    \/ LoadFresh
    \/ LoadFails
    \/ Title
    \/ Selectbox
    \/ StateDf
    \/ FullState
    \/ Checkbox
    \/ ComputeYSeries
    \/ LineChart
    \/ IliValue
    \/ Fit
    \/ NoFit
    \/ Rerun

Spec == Init /\ [][Next]_vars

(* ------------------------------------------------------------ properties *)
(* The pass has a table: load_data returned.                               *)
Loaded == pc \notin {"load_data", "aborted"}

(* The selector has returned its value.                                    *)
Selected == Loaded /\ pc \notin {"title", "selectbox"}

(* The time series has been computed.                                      *)
SeriesReady == pc \in {"line_chart", "ili_value", "fit_guard", "done"}

(* The pass is over.                                                       *)
Ended == pc \in {"done", "crashed", "aborted"}

Rendered(e) == \E i \in 1..Len(output) : output[i] = e

(* Rows of the file with a value, of one group, in file order.             *)
KeptOf(g) == SelectSeq(source.rows, LAMBDA r : r.state = g /\ r.ili # <<>>)

GroupIdx(t, g) == {i \in 1..Len(t) : t[i].state = g}

PresentIdx == {i \in 1..Len(source.rows) : source.rows[i].ili # <<>>}

KthPresent(k) ==
    CHOOSE i \in PresentIdx : Cardinality({j \in PresentIdx : j < i}) = k - 1

(* C2: the loaded table holds exactly the file's rows that have a value,   *)
(* unaltered and in file order; the row count falls by the number of rows  *)
(* without a value.                                                        *)
C2_DropsExactlyMissingRows ==
    Loaded =>
        /\ Len(df_loaded) <= Len(source.rows)
        /\ Len(source.rows) - Len(df_loaded)
              = Cardinality((1..Len(source.rows)) \ PresentIdx)
        /\ \A k \in 1..Len(df_loaded) :
              LET r == source.rows[KthPresent(k)]
              IN  /\ df_loaded[k].state = r.state
                  /\ df_loaded[k].epiweek = r.epiweek
                  /\ df_loaded[k].ili = r.ili[1]

(* A file with a row without a value between two rows with one, one of     *)
(* them holding the value 0.                                               *)
C2_Witness ==
    /\ Loaded
    /\ Len(source.rows) = 3
    /\ source.rows[2].ili = <<>>
    /\ Len(df_loaded) = 2
    /\ df_loaded[1].ili = 0
    /\ df_loaded[2].ili = 1

RECURSIVE SumRange(_, _, _)
SumRange(s, lo, hi) == IF lo > hi THEN 0 ELSE s[lo] + SumRange(s, lo + 1, hi)

Max(a, b) == IF a > b THEN a ELSE b

(* The fraction q is the number n / d.                                     *)
IsQuotient(q, n, d) == q[2] > 0 /\ q[1] * d = q[2] * n

(* The raw values of the selected rows.                                    *)
Raw == [i \in 1..Len(state_df) |-> state_df[i].ili]

(* Every value of the series is the mean of its trailing window of 5,      *)
(* shorter at the start of the series.                                     *)
WindowMeans ==
    /\ Len(y_series) = Len(Raw)
    /\ \A i \in 1..Len(Raw) :
          LET lo == Max(1, i - 4)
          IN  IsQuotient(y_series[i].value, SumRange(Raw, lo, i), i - lo + 1)

(* C3 (as claimed): with the box ticked, the i-th value of the series is   *)
(* the mean of the raw values from position max(first, i-4) to i, and for  *)
(* the raw series 1,3,5,2,4,6 the values at positions 0, 1, 4, 5 are 1, 2, *)
(* 3 and 7/2.                                                              *)
C3_AsClaimed ==
    (SeriesReady /\ average) =>
        /\ WindowMeans
        /\ Raw = <<1, 3, 5, 2, 4, 6>> =>
              /\ y_series[1].value = <<1, 1>>
              /\ y_series[2].value = <<2, 1>>
              /\ y_series[5].value = <<3, 1>>
              /\ y_series[6].value = <<7, 2>>

(* C3 (amended): with the box ticked, the i-th value of the series is the  *)
(* mean of the raw values from position max(first, i-4) to i; the first    *)
(* value is raw[0], the second the mean of raw[0] and raw[1]; for the raw  *)
(* series 1,3,5,2,4,6 the values at positions 0, 1, 4, 5 are 1, 2, 3, 4.   *)
C3_TrailingWindowMean ==
    (SeriesReady /\ average) =>
        /\ WindowMeans
        /\ Len(Raw) >= 1 => y_series[1].value = <<Raw[1], 1>>
        /\ Len(Raw) >= 2 => IsQuotient(y_series[2].value, Raw[1] + Raw[2], 2)
        /\ Raw = <<1, 3, 5, 2, 4, 6>> =>
              /\ y_series[1].value = <<1, 1>>
              /\ y_series[2].value = <<2, 1>>
              /\ y_series[5].value = <<3, 1>>
              /\ y_series[6].value = <<4, 1>>

(* The smoothed series of 1,3,5,2,4,6: the window has dropped raw[0].      *)
C3_Witness ==
    /\ SeriesReady
    /\ average
    /\ Raw = <<1, 3, 5, 2, 4, 6>>
    /\ Len(y_series) = 6
    /\ y_series[6].value = <<4, 1>>

(* The selected group's values, read from the loaded table.                *)
GroupValues ==
    LET rows == SelectSeq(df_loaded, LAMBDA r : r.state = state)
    IN  [i \in 1..Len(rows) |-> rows[i].ili]

(* C4 (as claimed): a pass that made its selection ends with the fallback  *)
(* text exactly when the selected group has no values or their mean is not *)
(* above zero, and with the fit otherwise.                                 *)
C4_NoFitIffEmptyOrMeanNotPositive ==
    (Selected /\ Ended) =>
        LET v == GroupValues
            noData == Len(v) = 0 \/ SumRange(v, 1, Len(v)) <= 0
        IN  /\ noData <=> (outcome = "nofit" /\ Rendered("write"))
            /\ ~noData <=> (outcome = "fit" /\ Rendered("pyplot"))
            /\ ~(Rendered("write") /\ Rendered("pyplot"))

(* C5: a fit's rate is 1 / mean of the selected group's values of the      *)
(* table, in any order; it is positive; for the values 1, 2, 3 it is 1/2.  *)
C5_RateIsInverseMean ==
    outcome = "fit" =>
        LET v == GroupValues
        IN  /\ lambda_hat[1] > 0
            /\ IsQuotient(lambda_hat, Len(v), SumRange(v, 1, Len(v)))
            /\ (Len(v) = 3 /\ {v[i] : i \in 1..3} = {1, 2, 3}) =>
                  lambda_hat = <<1, 2>>

(* A fit over the values 3, 1, 2 in that order.                            *)
C5_Witness ==
    /\ outcome = "fit"
    /\ ili_value = <<3, 1, 2>>
    /\ lambda_hat = <<1, 2>>

(* C6 (as claimed): a pass whose load succeeded draws the time series, and *)
(* draws it before the fit is decided.                                     *)
C6_TimeSeriesAlwaysRendered ==
    /\ (Loaded /\ Ended) => Rendered("line_chart")
    /\ outcome # "undecided" => Rendered("line_chart")

(* The file cannot be loaded.                                              *)
SourceFails ==
    \/ ~source.readable
    \/ "ili" \notin source.columns
    \/ "state" \notin source.columns

(* C7: when the file cannot be loaded the pass stops at load_data with the *)
(* exception: it draws nothing, has no table, and has read the file once.  *)
C7_LoaderErrorAbortsRender ==
    SourceFails =>
        /\ pc \in {"load_data", "aborted"}
        /\ output = <<>>
        /\ df_loaded = <<>> /\ cache = <<>>
        /\ reads <= 1
        /\ pc = "aborted" => (error # "none" /\ reads = 1)

(* A second pass over a file without a column, aborted like the first.     *)
C7_Witness ==
    /\ pc = "aborted"
    /\ pass = 2
    /\ error = "KeyError"
    /\ output = <<>>

(* C8 (as claimed): when the selected key matches no row of the table, the *)
(* pass raises nothing and its time series is the empty one.               *)
C8_NoMatchGivesEmptySeries ==
    (Selected /\ GroupIdx(df_loaded, state) = {}) =>
        /\ error = "none"
        /\ Ended => (pc = "done" /\ y_series = <<>>)

C10_TableNeverMutated ==
    /\ cache # <<>> => cache = <<load_data(source.rows)>>
    /\ Loaded => (cache # <<>> /\ df_loaded = cache[1])
    /\ pc = "done" =>
          LET rows == SelectRows(load_data(source.rows), state)
          IN  /\ state_df = rows
              /\ y_series = YSeries(SetIndex(rows), average)
              /\ ili_value = IliValues(rows)
              /\ outcome = IF FitGuard(IliValues(rows)) THEN "fit" ELSE "nofit"

(* A second pass, finished, with another key and the box unticked.         *)
C10_Witness ==
    /\ pass = 2
    /\ pc = "done"
    /\ state = "pr"
    /\ ~average
    /\ Len(df_loaded) = 3
    /\ Len(state_df) = 1

====
